---- MODULE Spec2Model ----
(***************************************************************************)
(* WebAuthModule (windows/StarterApp/WebAuthModule.cpp): the loopback      *)
(* redirect handler `authenticate`.  Each invocation runs on its own       *)
(* detached thread: WSAStartup, socket, bind, getsockname, listen,         *)
(* ShellExecuteW, setsockopt, accept, recv, send, closesocket, WSACleanup, *)
(* request-line parsing, and one Resolve or Reject on the promise.         *)
(*                                                                         *)
(* Strings are sequences of one-character strings, so that find, substr,   *)
(* to_string, the C-string conversion of the receive buffer and the        *)
(* regular expression are computed character by character.                 *)
(***************************************************************************)
EXTENDS Integers, Sequences, FiniteSets

----------------------------------------------------------------------------
\* Bounds of the model.

\* Number of authenticate invocations that may run concurrently.
NumWorkers == 2
\* Size of the ephemeral port range the system assigns from.
NumPorts == 2
\* Lowest port of the ephemeral range.
MinPort == 49152
\* How many timeout periods the clock is followed while a call blocks.
MaxPeriods == 2
\* Longest request target (path and query) enumerated, in characters.
MaxTargetLen == 3
\* Longest authorization URL enumerated, in characters.
MaxUrlLen == 2
\* Longest byte sequence given to Base64UrlEncode, in bytes.
MaxDataLen == 3
\* Number of different byte vectors the random source and the hash provider
\* can write.
NumVectors == 4

----------------------------------------------------------------------------
\* Program constants.

\* DWORD timeout = 60000;
timeout == 60000
\* char buf[4096];
BufSize == 4096
\* std::string::npos, as a position that is no index of a string.
npos == -1
\* INVALID_SOCKET, a handle value no socket has.
INVALID_SOCKET == 0
\* SOCKET_ERROR / a failed recv.
SOCKET_ERROR == -1
\* std::vector<uint8_t> randomBytes(32);
RandomBytesSize == 32
\* std::vector<uint8_t> hashValue(32);
HashValueSize == 32

----------------------------------------------------------------------------
\* Characters and string helpers.

\* The byte 0, which ends a C string.
NUL == "NUL"

\* std::isspace in the "C" locale, as used by the regex class \s.
IsSpace(c) == c \in {" ", "\t", "\n", "\r", "\f"}

Digits == <<"0", "1", "2", "3", "4", "5", "6", "7", "8", "9">>

\* std::to_string(int) for a non-negative value.
RECURSIVE ToString(_)
ToString(n) ==
    IF n < 10 THEN <<Digits[n + 1]>>
    ELSE ToString(n \div 10) \o <<Digits[(n % 10) + 1]>>

\* std::string::find(char): 0-based position of the first c in s, or npos.
Find(s, c) ==
    IF \E i \in 1..Len(s) : s[i] = c
    THEN (CHOOSE i \in 1..Len(s) : s[i] = c /\ \A j \in 1..(i - 1) : s[j] # c) - 1
    ELSE npos

\* std::string::substr(pos): the characters from 0-based position pos on.
Substr(s, pos) == SubSeq(s, pos + 1, Len(s))

\* std::string(const char *): the bytes of the buffer before its first NUL.
CString(b) ==
    IF Find(b, NUL) = npos THEN b ELSE SubSeq(b, 1, Find(b, NUL))

\* Whether the literal lit occurs in s at 1-based index i.
LitAt(s, i, lit) ==
    /\ i >= 1
    /\ i + Len(lit) - 1 <= Len(s)
    /\ SubSeq(s, i, i + Len(lit) - 1) = lit

\* Length of the longest run of white space in s starting at index i.
RECURSIVE SpaceRun(_, _)
SpaceRun(s, i) ==
    IF i <= Len(s) /\ IsSpace(s[i]) THEN 1 + SpaceRun(s, i + 1) ELSE 0

\* Length of the longest run of non-white-space in s starting at index i.
RECURSIVE NonSpaceRun(_, _)
NonSpaceRun(s, i) ==
    IF i <= Len(s) /\ ~IsSpace(s[i]) THEN 1 + NonSpaceRun(s, i + 1) ELSE 0

\* Minimum of a non-empty set of integers.
Min(S) == CHOOSE x \in S : \A y \in S : x <= y

\* The elements of a sequence.
Range(s) == {s[i] : i \in DOMAIN s}

\* Number of occurrences of e in the sequence s.
Count(s, e) == Cardinality({i \in DOMAIN s : s[i] = e})

----------------------------------------------------------------------------
\* The request-line regular expression  GET\s+(/\S+)\s+HTTP  and its search.

GET == <<"G", "E", "T">>
HTTP == <<"H", "T", "T", "P">>

\* The value of match[1] when there is no match (a match's path is never
\* empty: it holds '/' and at least one more character).
NoMatch == <<>>

\* The regular expression matched at index i of s: the captured group 1, or
\* NoMatch.  \s+ and \S+ are greedy; giving back any character of a run
\* leaves a character of the wrong class in front of the next element, so
\* the longest runs are the only way to match.
RequestLineMatchAt(s, i) ==
    LET ws1 == SpaceRun(s, i + 3)
        p   == i + 3 + ws1
        tok == NonSpaceRun(s, p)
        e   == p + tok
        ws2 == SpaceRun(s, e)
    IN  IF /\ LitAt(s, i, GET)
           /\ ws1 >= 1
           /\ LitAt(s, p, <<"/">>)
           /\ tok >= 2
           /\ ws2 >= 1
           /\ LitAt(s, e + ws2, HTTP)
        THEN SubSeq(s, p, e - 1)
        ELSE NoMatch

\* std::regex_search(request, match, requestLineRegex): the match at the
\* leftmost index where the expression matches; its group 1, or NoMatch.
RegexSearch(s) ==
    LET hits == {i \in 1..Len(s) : RequestLineMatchAt(s, i) # NoMatch}
    IN  IF hits = {} THEN NoMatch ELSE RequestLineMatchAt(s, Min(hits))

----------------------------------------------------------------------------
\* Values handed to the promise.

JSNull == [type |-> "null", str |-> <<>>]
JSString(s) == [type |-> "string", str |-> s]

Resolved(v) == [kind |-> "Resolve", code |-> "", message |-> "", value |-> v]
Rejected(c, m) == [kind |-> "Reject", code |-> c, message |-> m, value |-> JSNull]

\* "://callback"
CallbackLit == <<":", "/", "/", "c", "a", "l", "l", "b", "a", "c", "k">>

\* A callback URL that keeps the query without its leading '?'.
CallbackUrlDropQ(callbackScheme, path, qPos) ==
    callbackScheme \o CallbackLit \o Substr(path, qPos + 1)

\* callbackScheme + "://callback" + path.substr(qPos)
CallbackUrl(callbackScheme, path, qPos) ==
    callbackScheme \o CallbackLit \o Substr(path, qPos)

\* A parse that builds a callback URL from a path without '?' as well.
ParseRequestNoQueryCheck(request, callbackScheme) ==
    LET path == RegexSearch(request)
    IN  IF path # NoMatch
        THEN JSString(CallbackUrl(callbackScheme, path,
                                  IF Find(path, "?") = npos THEN Len(path)
                                  ELSE Find(path, "?")))
        ELSE JSNull

\* The value resolved after the response was sent: the request line is
\* searched in the request, and its path is cut at the first '?'.
ParseRequest(request, callbackScheme) ==
    LET path == RegexSearch(request)
        qPos == Find(path, "?")
    IN  IF path # NoMatch
        THEN IF qPos = npos THEN JSNull
             ELSE JSString(CallbackUrl(callbackScheme, path, qPos))
        ELSE JSNull

----------------------------------------------------------------------------
\* The URL handed to the browser.

\* "http://127.0.0.1:"
RedirectHost == <<"h", "t", "t", "p", ":", "/", "/", "1", "2", "7", ".",
                  "0", ".", "0", ".", "1", ":">>
\* "/callback"
CallbackPath == <<"/", "c", "a", "l", "l", "b", "a", "c", "k">>
\* "redirect_uri="
RedirectParam == <<"r", "e", "d", "i", "r", "e", "c", "t", "_", "u", "r",
                   "i", "=">>

\* "http://127.0.0.1:" + std::to_string(port) + "/callback"
RedirectUri(p) == RedirectHost \o ToString(p) \o CallbackPath

\* A full URL that always joins with '?'.
FullUrlAlwaysQuestion(u, redirectUri) ==
    u \o <<"?">> \o RedirectParam \o redirectUri

\* fullUrl: the caller's URL, '&' or '?', "redirect_uri=" and the redirect URI.
FullUrl(u, redirectUri) ==
    IF Find(u, "?") # npos
    THEN u \o <<"&">> \o RedirectParam \o redirectUri
    ELSE u \o <<"?">> \o RedirectParam \o redirectUri

----------------------------------------------------------------------------
\* Base64UrlEncode (lines 26-52).  A byte is a number of 0..255.

\* The base64 alphabet: the character of the 6-bit value v is
\* Base64Alphabet[v + 1].
Base64Alphabet ==
    <<"A", "B", "C", "D", "E", "F", "G", "H", "I", "J", "K", "L", "M", "N",
      "O", "P", "Q", "R", "S", "T", "U", "V", "W", "X", "Y", "Z",
      "a", "b", "c", "d", "e", "f", "g", "h", "i", "j", "k", "l", "m", "n",
      "o", "p", "q", "r", "s", "t", "u", "v", "w", "x", "y", "z",
      "0", "1", "2", "3", "4", "5", "6", "7", "8", "9", "+", "/">>

\* The text CRYPT_STRING_BASE64 | CRYPT_STRING_NOCRLF gives for the bytes d:
\* four characters for every three bytes, the last group filled up with '=',
\* and no line breaks.
RECURSIVE Base64(_)
Base64(d) ==
    IF Len(d) = 0 THEN <<>>
    ELSE IF Len(d) = 1
    THEN <<Base64Alphabet[(d[1] \div 4) + 1],
           Base64Alphabet[((d[1] % 4) * 16) + 1], "=", "=">>
    ELSE IF Len(d) = 2
    THEN <<Base64Alphabet[(d[1] \div 4) + 1],
           Base64Alphabet[((d[1] % 4) * 16) + (d[2] \div 16) + 1],
           Base64Alphabet[((d[2] % 16) * 4) + 1], "=">>
    ELSE <<Base64Alphabet[(d[1] \div 4) + 1],
           Base64Alphabet[((d[1] % 4) * 16) + (d[2] \div 16) + 1],
           Base64Alphabet[((d[2] % 16) * 4) + (d[3] \div 64) + 1],
           Base64Alphabet[(d[3] % 64) + 1]>>
         \o Base64(SubSeq(d, 4, Len(d)))

\* CryptBinaryToStringA with a null pszString: the length the text needs,
\* the terminating NUL included.
CryptBinaryToStringLen(d) == Len(Base64(d)) + 1

\* CryptBinaryToStringA into a string of base64Len characters: the text and
\* its NUL are written at the front of the string, and the length of the
\* text without the NUL comes back; base64.resize cuts the string to it.
\* (For no bytes at all a call that fails leaves the length 0 it began with,
\* and the string is empty as well.)
CryptBinaryToString(d, base64Len) ==
    LET written == Base64(d) \o <<NUL>>
        base64  == [i \in 1..base64Len |->
                       IF i <= Len(written) THEN written[i] ELSE NUL]
    IN  SubSeq(base64, 1, Len(written) - 1)

\* The loop over the base64 text: '+' becomes '-', '/' becomes '_', '=' is
\* left out, any other character is copied.
RECURSIVE ToBase64Url(_)
ToBase64Url(base64) ==
    IF base64 = <<>> THEN <<>>
    ELSE LET c == Head(base64)
         IN  (IF c = "+" THEN <<"-">>
              ELSE IF c = "/" THEN <<"_">>
              ELSE IF c = "=" THEN <<>>
              ELSE <<c>>) \o ToBase64Url(Tail(base64))

\* An encoding that returns the base64 text as the system wrote it.
Base64UrlEncodeUnconverted(data) ==
    CryptBinaryToString(data, CryptBinaryToStringLen(data))

Base64UrlEncode(data) ==
    ToBase64Url(CryptBinaryToString(data, CryptBinaryToStringLen(data)))

----------------------------------------------------------------------------
\* State.

VARIABLES
    pc,              \* per invocation: the call its thread makes next
    url,             \* per invocation: the captured authorization URL
    callbackScheme,  \* per invocation: the captured callback scheme
    result,          \* per invocation: the Resolve/Reject calls on its promise
    wsaCount,        \* the process's count of WSAStartup minus WSACleanup
    sockets,         \* the process's socket table, by handle
    listenSock,      \* per invocation: the local listenSock
    clientSock,      \* per invocation: the local clientSock
    port,            \* per invocation: the local port
    launched,        \* per invocation: the URLs given to ShellExecuteW
    buf,             \* per invocation: the bytes recv stored in buf
    bytesRead,       \* per invocation: the local bytesRead
    waited,          \* per invocation: ms spent so far in its blocking call
    events,          \* per invocation: the calls it made, in program order
                     \* ("X failed" for a call whose failure the code tests)
    encData,         \* the bytes given to Base64UrlEncode
    encoded,         \* the strings Base64UrlEncode returned for encData
    randomBytes,     \* generateCodeVerifier: the local randomBytes
    verifierResult,  \* generateCodeVerifier: the calls on its promise
    input,           \* sha256: the argument input
    hashValue,       \* sha256: the local hashValue
    hashResult,      \* sha256: the calls on its promise
    hAlg,            \* sha256: the state of the algorithm provider handle
    hHash,           \* sha256: the state of the hash handle
    verifierCalls,   \* generateCodeVerifier: its calls, in program order
    hashCalls        \* sha256: its calls, in program order

\* The state of the authenticate invocations.
authVars == <<pc, url, callbackScheme, result, wsaCount, sockets, listenSock,
              clientSock, port, launched, buf, bytesRead, waited, events>>

\* The state of Base64UrlEncode, generateCodeVerifier and sha256.
pkceVars == <<encData, encoded, randomBytes, verifierResult, input, hashValue,
              hashResult, hAlg, hHash, verifierCalls, hashCalls>>

vars == <<authVars, pkceVars>>

Workers == 1..NumWorkers

\* Each invocation opens at most a listening and an accepted socket.
Handles == 1..(2 * NumWorkers)

EphemeralPorts == MinPort..(MinPort + NumPorts - 1)

\* A handle that names no socket.
FreeSocket == [state |-> "free", owner |-> 0, port |-> 0, rcvtimeo |-> 0]

\* The handle the system gives to the next socket an invocation creates.  The
\* system may return any handle that names no socket; the model draws the
\* handles of invocation w from a range of its own, so that the value of a
\* handle does not depend on the order in which the threads run.
HandlesOf(w) == {2 * w - 1, 2 * w}
NewHandle(tbl, w) == Min({h \in HandlesOf(w) : tbl[h].state = "free"})

\* A port assignment that may hand out a port a listener is bound to.
FreePortsShared(tbl) == EphemeralPorts

\* The ports no listener of the process is bound to.
FreePorts(tbl) ==
    EphemeralPorts \ {tbl[h].port : h \in {k \in Handles :
                                            tbl[k].state \in {"bound", "listening"}}}

\* closesocket(h): the socket is destroyed and its handle can be reused.
CloseSocket(tbl, h) ==
    IF h \in Handles /\ tbl[h].state # "free"
    THEN [tbl EXCEPT ![h] = FreeSocket]
    ELSE tbl

\* The port of an address that getsockname did not fill in: addr.sin_port
\* as it was set before bind.
GetSockNameUnread(tbl, h) == 0

\* getsockname + ntohs(addr.sin_port): the port the socket is bound to.
GetSockName(tbl, h) == tbl[h].port

\* The sockets an invocation created and has not closed.
OpenSocketsOf(w) ==
    {h \in Handles : sockets[h].state # "free" /\ sockets[h].owner = w}

Log(w, calls) == [events EXCEPT ![w] = @ \o calls]
Complete(w, c) == [result EXCEPT ![w] = Append(@, c)]

\* No invocation of authenticate has been started.
InitAuth ==
    /\ pc = [w \in Workers |-> "idle"]
    /\ url = [w \in Workers |-> <<>>]
    /\ callbackScheme = [w \in Workers |-> <<>>]
    /\ result = [w \in Workers |-> <<>>]
    /\ wsaCount = 0
    /\ sockets = [h \in Handles |-> FreeSocket]
    /\ listenSock = [w \in Workers |-> INVALID_SOCKET]
    /\ clientSock = [w \in Workers |-> INVALID_SOCKET]
    /\ port = [w \in Workers |-> 0]
    /\ launched = [w \in Workers |-> <<>>]
    /\ buf = [w \in Workers |-> <<>>]
    /\ bytesRead = [w \in Workers |-> 0]
    /\ waited = [w \in Workers |-> 0]
    /\ events = [w \in Workers |-> <<>>]

\* Neither generateCodeVerifier nor sha256 has been called.
InitPkce ==
    /\ encoded = <<>>
    /\ randomBytes = <<>>
    /\ verifierResult = <<>>
    /\ input = <<>>
    /\ hashValue = <<>>
    /\ hashResult = <<>>
    /\ hAlg = "null"
    /\ hHash = "null"
    /\ verifierCalls = <<>>
    /\ hashCalls = <<>>

Init == InitAuth /\ InitPkce /\ encData = <<>>

----------------------------------------------------------------------------
\* Listener setup (WebAuthModule.cpp lines 119-163).

\* An authenticate that joins its thread: the caller gets the call back only
\* when the thread has finished, so it starts no invocation while one runs.
AuthenticateJoined(w, Args) ==
    /\ pc[w] = "idle"
    /\ \A v \in Workers \ {w} : pc[v] \in {"idle", "done"}
    /\ \E a \in Args :
         /\ url' = [url EXCEPT ![w] = a[1]]
         /\ callbackScheme' = [callbackScheme EXCEPT ![w] = a[2]]
    /\ pc' = [pc EXCEPT ![w] = "WSAStartup"]
    /\ UNCHANGED pkceVars
    /\ UNCHANGED <<result, wsaCount, sockets, listenSock, clientSock, port,
                   launched, buf, bytesRead, waited, events>>

\* authenticate(url, callbackScheme, result): the arguments and the promise
\* move into a detached thread; the call returns.
Authenticate(w, Args) ==
    /\ pc[w] = "idle"
    /\ \E a \in Args :
         /\ url' = [url EXCEPT ![w] = a[1]]
         /\ callbackScheme' = [callbackScheme EXCEPT ![w] = a[2]]
    /\ pc' = [pc EXCEPT ![w] = "WSAStartup"]
    /\ UNCHANGED pkceVars
    /\ UNCHANGED <<result, wsaCount, sockets, listenSock, clientSock, port,
                   launched, buf, bytesRead, waited, events>>

WSAStartupOk(w) ==
    /\ pc[w] = "WSAStartup"
    /\ wsaCount' = wsaCount + 1
    /\ events' = Log(w, <<"WSAStartup">>)
    /\ pc' = [pc EXCEPT ![w] = "socket"]
    /\ UNCHANGED pkceVars
    /\ UNCHANGED <<url, callbackScheme, result, sockets, listenSock,
                   clientSock, port, launched, buf, bytesRead, waited>>

WSAStartupFails(w) ==
    /\ pc[w] = "WSAStartup"
    /\ events' = Log(w, <<"WSAStartup failed", "Reject">>)
    /\ result' = Complete(w, Rejected("SOCKET_ERROR", "Failed to initialize Winsock"))
    /\ pc' = [pc EXCEPT ![w] = "done"]
    /\ UNCHANGED pkceVars
    /\ UNCHANGED <<url, callbackScheme, wsaCount, sockets, listenSock,
                   clientSock, port, launched, buf, bytesRead, waited>>

SocketOk(w) ==
    /\ pc[w] = "socket"
    /\ LET h == NewHandle(sockets, w)
       IN  /\ sockets' = [sockets EXCEPT ![h] =
                             [state |-> "open", owner |-> w, port |-> 0,
                              rcvtimeo |-> 0]]
           /\ listenSock' = [listenSock EXCEPT ![w] = h]
    /\ events' = Log(w, <<"socket">>)
    /\ pc' = [pc EXCEPT ![w] = "bind"]
    /\ UNCHANGED pkceVars
    /\ UNCHANGED <<url, callbackScheme, result, wsaCount, clientSock, port,
                   launched, buf, bytesRead, waited>>

\* A socket failure that leaves the socket library initialised.
SocketFailsNoCleanup(w) ==
    /\ pc[w] = "socket"
    /\ listenSock' = [listenSock EXCEPT ![w] = INVALID_SOCKET]
    /\ events' = Log(w, <<"socket failed", "Reject">>)
    /\ result' = Complete(w, Rejected("SOCKET_ERROR", "Failed to create socket"))
    /\ pc' = [pc EXCEPT ![w] = "done"]
    /\ UNCHANGED pkceVars
    /\ UNCHANGED <<url, callbackScheme, wsaCount, sockets, clientSock, port,
                   launched, buf, bytesRead, waited>>

SocketFails(w) ==
    /\ pc[w] = "socket"
    /\ listenSock' = [listenSock EXCEPT ![w] = INVALID_SOCKET]
    /\ wsaCount' = wsaCount - 1
    /\ events' = Log(w, <<"socket failed", "WSACleanup", "Reject">>)
    /\ result' = Complete(w, Rejected("SOCKET_ERROR", "Failed to create socket"))
    /\ pc' = [pc EXCEPT ![w] = "done"]
    /\ UNCHANGED pkceVars
    /\ UNCHANGED <<url, callbackScheme, sockets, clientSock, port, launched,
                   buf, bytesRead, waited>>

\* bind to 127.0.0.1 port 0: the system assigns a free ephemeral port; then
\* getsockname reads the port back.
BindOk(w) ==
    /\ pc[w] = "bind"
    /\ \E p \in FreePorts(sockets) :
         /\ sockets' = [sockets EXCEPT ![listenSock[w]].state = "bound",
                                       ![listenSock[w]].port = p]
         /\ port' = [port EXCEPT ![w] = GetSockName(sockets', listenSock[w])]
    /\ events' = Log(w, <<"bind", "getsockname">>)
    /\ pc' = [pc EXCEPT ![w] = "listen"]
    /\ UNCHANGED pkceVars
    /\ UNCHANGED <<url, callbackScheme, result, wsaCount, listenSock,
                   clientSock, launched, buf, bytesRead, waited>>

\* A bind failure that leaves the socket open.
BindFailsLeak(w) ==
    /\ pc[w] = "bind"
    /\ wsaCount' = wsaCount - 1
    /\ events' = Log(w, <<"bind failed", "WSACleanup", "Reject">>)
    /\ result' = Complete(w, Rejected("SOCKET_ERROR", "Failed to bind socket"))
    /\ pc' = [pc EXCEPT ![w] = "done"]
    /\ UNCHANGED pkceVars
    /\ UNCHANGED <<url, callbackScheme, sockets, listenSock, clientSock, port,
                   launched, buf, bytesRead, waited>>

BindFails(w) ==
    /\ pc[w] = "bind"
    /\ sockets' = CloseSocket(sockets, listenSock[w])
    /\ wsaCount' = wsaCount - 1
    /\ events' = Log(w, <<"bind failed", "closesocket(listenSock)",
                          "WSACleanup", "Reject">>)
    /\ result' = Complete(w, Rejected("SOCKET_ERROR", "Failed to bind socket"))
    /\ pc' = [pc EXCEPT ![w] = "done"]
    /\ UNCHANGED pkceVars
    /\ UNCHANGED <<url, callbackScheme, listenSock, clientSock, port,
                   launched, buf, bytesRead, waited>>

ListenOk(w) ==
    /\ pc[w] = "listen"
    /\ sockets' = [sockets EXCEPT ![listenSock[w]].state = "listening"]
    /\ events' = Log(w, <<"listen">>)
    /\ pc' = [pc EXCEPT ![w] = "ShellExecuteW"]
    /\ UNCHANGED pkceVars
    /\ UNCHANGED <<url, callbackScheme, result, wsaCount, listenSock,
                   clientSock, port, launched, buf, bytesRead, waited>>

\* A listen failure that is not looked at: the thread goes on to the launch.
ListenFailsIgnored(w) ==
    /\ pc[w] = "listen"
    /\ events' = Log(w, <<"listen failed">>)
    /\ pc' = [pc EXCEPT ![w] = "ShellExecuteW"]
    /\ UNCHANGED pkceVars
    /\ UNCHANGED <<url, callbackScheme, result, wsaCount, sockets, listenSock,
                   clientSock, port, launched, buf, bytesRead, waited>>

ListenFails(w) ==
    /\ pc[w] = "listen"
    /\ sockets' = CloseSocket(sockets, listenSock[w])
    /\ wsaCount' = wsaCount - 1
    /\ events' = Log(w, <<"listen failed", "closesocket(listenSock)",
                          "WSACleanup", "Reject">>)
    /\ result' = Complete(w, Rejected("SOCKET_ERROR", "Failed to listen on socket"))
    /\ pc' = [pc EXCEPT ![w] = "done"]
    /\ UNCHANGED pkceVars
    /\ UNCHANGED <<url, callbackScheme, listenSock, clientSock, port,
                   launched, buf, bytesRead, waited>>

----------------------------------------------------------------------------
\* Browser launch and the wait for the redirect (lines 165-198).

\* The redirect URI and the full URL are built, ShellExecuteW opens the URL
\* (its result is not looked at), and SO_RCVTIMEO is set on listenSock.
LaunchBrowser(w) ==
    /\ pc[w] = "ShellExecuteW"
    /\ launched' = [launched EXCEPT ![w] =
                       Append(@, FullUrl(url[w], RedirectUri(port[w])))]
    /\ sockets' = [sockets EXCEPT ![listenSock[w]].rcvtimeo = timeout]
    /\ events' = Log(w, <<"ShellExecuteW", "setsockopt">>)
    /\ waited' = [waited EXCEPT ![w] = 0]
    /\ pc' = [pc EXCEPT ![w] = "accept"]
    /\ UNCHANGED pkceVars
    /\ UNCHANGED <<url, callbackScheme, result, wsaCount, listenSock,
                   clientSock, port, buf, bytesRead>>

\* Time passes while the thread is blocked in accept or recv.  SO_RCVTIMEO
\* is the timeout of a socket's blocking receive calls: a recv on a socket
\* whose option is set returns by the time it has waited that long.  accept
\* is no receive call, so the option puts no limit on the wait in accept.
Tick(w) ==
    /\ pc[w] \in {"accept", "recv"}
    /\ waited[w] < MaxPeriods * timeout
    /\ pc[w] = "recv" =>
         \/ sockets[clientSock[w]].rcvtimeo = 0
         \/ waited[w] < sockets[clientSock[w]].rcvtimeo
    /\ waited' = [waited EXCEPT ![w] = @ + timeout]
    /\ UNCHANGED pkceVars
    /\ UNCHANGED <<pc, url, callbackScheme, result, wsaCount, sockets,
                   listenSock, clientSock, port, launched, buf, bytesRead,
                   events>>

\* An accept whose new socket has no receive timeout.
AcceptOkNoTimeout(w) ==
    /\ pc[w] = "accept"
    /\ LET h == NewHandle(sockets, w)
       IN  /\ sockets' = [sockets EXCEPT ![h] =
                             [state |-> "connected", owner |-> w,
                              port |-> sockets[listenSock[w]].port,
                              rcvtimeo |-> 0]]
           /\ clientSock' = [clientSock EXCEPT ![w] = h]
    /\ events' = Log(w, <<"accept">>)
    /\ waited' = [waited EXCEPT ![w] = 0]
    /\ pc' = [pc EXCEPT ![w] = "recv"]
    /\ UNCHANGED pkceVars
    /\ UNCHANGED <<url, callbackScheme, result, wsaCount, listenSock, port,
                   launched, buf, bytesRead>>

\* A client has connected: accept returns a new socket, which has the
\* properties of the listening socket.
AcceptOk(w) ==
    /\ pc[w] = "accept"
    /\ LET h == NewHandle(sockets, w)
       IN  /\ sockets' = [sockets EXCEPT ![h] =
                             [state |-> "connected", owner |-> w,
                              port |-> sockets[listenSock[w]].port,
                              rcvtimeo |-> sockets[listenSock[w]].rcvtimeo]]
           /\ clientSock' = [clientSock EXCEPT ![w] = h]
    /\ events' = Log(w, <<"accept">>)
    /\ waited' = [waited EXCEPT ![w] = 0]
    /\ pc' = [pc EXCEPT ![w] = "recv"]
    /\ UNCHANGED pkceVars
    /\ UNCHANGED <<url, callbackScheme, result, wsaCount, listenSock, port,
                   launched, buf, bytesRead>>

\* An accept failure after which the thread ends without completing the
\* promise.
AcceptFailsNoResolve(w) ==
    /\ pc[w] = "accept"
    /\ clientSock' = [clientSock EXCEPT ![w] = INVALID_SOCKET]
    /\ sockets' = CloseSocket(sockets, listenSock[w])
    /\ wsaCount' = wsaCount - 1
    /\ events' = Log(w, <<"accept failed", "closesocket(listenSock)",
                          "WSACleanup">>)
    /\ waited' = [waited EXCEPT ![w] = 0]
    /\ pc' = [pc EXCEPT ![w] = "done"]
    /\ UNCHANGED pkceVars
    /\ UNCHANGED <<url, callbackScheme, result, listenSock, port, launched,
                   buf, bytesRead>>

\* An accept failure reported as an error.
AcceptFailsRejects(w) ==
    /\ pc[w] = "accept"
    /\ clientSock' = [clientSock EXCEPT ![w] = INVALID_SOCKET]
    /\ sockets' = CloseSocket(sockets, listenSock[w])
    /\ wsaCount' = wsaCount - 1
    /\ events' = Log(w, <<"accept failed", "closesocket(listenSock)",
                          "WSACleanup", "Reject">>)
    /\ result' = Complete(w, Rejected("SOCKET_ERROR", "Failed to accept"))
    /\ waited' = [waited EXCEPT ![w] = 0]
    /\ pc' = [pc EXCEPT ![w] = "done"]
    /\ UNCHANGED pkceVars
    /\ UNCHANGED <<url, callbackScheme, listenSock, port, launched, buf,
                   bytesRead>>

\* accept returns INVALID_SOCKET.
AcceptFails(w) ==
    /\ pc[w] = "accept"
    /\ clientSock' = [clientSock EXCEPT ![w] = INVALID_SOCKET]
    /\ sockets' = CloseSocket(sockets, listenSock[w])
    /\ wsaCount' = wsaCount - 1
    /\ events' = Log(w, <<"accept failed", "closesocket(listenSock)",
                          "WSACleanup", "Resolve">>)
    /\ result' = Complete(w, Resolved(JSNull))
    /\ waited' = [waited EXCEPT ![w] = 0]
    /\ pc' = [pc EXCEPT ![w] = "done"]
    /\ UNCHANGED pkceVars
    /\ UNCHANGED <<url, callbackScheme, listenSock, port, launched, buf,
                   bytesRead>>

\* A recv that is given the whole size of buf as its length.
RecvDataWholeBuffer(w, Requests) ==
    /\ pc[w] = "recv"
    /\ \E sent \in Requests :
         /\ Len(sent) >= 1
         /\ LET n == IF Len(sent) <= BufSize THEN Len(sent) ELSE BufSize
            IN  /\ buf' = [buf EXCEPT ![w] = SubSeq(sent, 1, n)]
                /\ bytesRead' = [bytesRead EXCEPT ![w] = n]
    /\ events' = Log(w, <<"recv">>)
    /\ waited' = [waited EXCEPT ![w] = 0]
    /\ pc' = [pc EXCEPT ![w] = "send"]
    /\ UNCHANGED pkceVars
    /\ UNCHANGED <<url, callbackScheme, result, wsaCount, sockets,
                   listenSock, clientSock, port, launched>>

\* recv(clientSock, buf, sizeof(buf) - 1, 0) returns at least one byte: the
\* first sizeof(buf) - 1 bytes the client sent are stored, and buf is ended
\* with a NUL after them.
RecvData(w, Requests) ==
    /\ pc[w] = "recv"
    /\ \E data \in Requests :
         /\ Len(data) >= 1
         /\ LET n == IF Len(data) <= BufSize - 1 THEN Len(data) ELSE BufSize - 1
            IN  /\ buf' = [buf EXCEPT ![w] = SubSeq(data, 1, n)]
                /\ bytesRead' = [bytesRead EXCEPT ![w] = n]
    /\ events' = Log(w, <<"recv">>)
    /\ waited' = [waited EXCEPT ![w] = 0]
    /\ pc' = [pc EXCEPT ![w] = "send"]
    /\ UNCHANGED pkceVars
    /\ UNCHANGED <<url, callbackScheme, result, wsaCount, sockets,
                   listenSock, clientSock, port, launched>>

\* A failed recv after which the thread closes the connection and waits in
\* accept for another one.
RecvFailsAcceptsAgain(w) ==
    /\ pc[w] = "recv"
    /\ \E n \in {0, SOCKET_ERROR} : bytesRead' = [bytesRead EXCEPT ![w] = n]
    /\ sockets' = CloseSocket(sockets, clientSock[w])
    /\ events' = Log(w, <<"recv failed", "closesocket(clientSock)">>)
    /\ waited' = [waited EXCEPT ![w] = 0]
    /\ pc' = [pc EXCEPT ![w] = "accept"]
    /\ UNCHANGED pkceVars
    /\ UNCHANGED <<url, callbackScheme, result, wsaCount, listenSock,
                   clientSock, port, launched, buf>>

\* recv returns 0 (the client closed the connection) or SOCKET_ERROR (an
\* error, or the receive timeout of the socket).
RecvFails(w) ==
    /\ pc[w] = "recv"
    /\ \E n \in {0, SOCKET_ERROR} : bytesRead' = [bytesRead EXCEPT ![w] = n]
    /\ sockets' = CloseSocket(CloseSocket(sockets, clientSock[w]), listenSock[w])
    /\ wsaCount' = wsaCount - 1
    /\ events' = Log(w, <<"recv failed", "closesocket(clientSock)",
                          "closesocket(listenSock)", "WSACleanup", "Resolve">>)
    /\ result' = Complete(w, Resolved(JSNull))
    /\ waited' = [waited EXCEPT ![w] = 0]
    /\ pc' = [pc EXCEPT ![w] = "done"]
    /\ UNCHANGED pkceVars
    /\ UNCHANGED <<url, callbackScheme, listenSock, clientSock, port,
                   launched, buf>>

----------------------------------------------------------------------------
\* Response and parsing (lines 199-227).

\* A response sent after the sockets were closed.
RespondAfterClose(w) ==
    /\ pc[w] = "send"
    /\ sockets' = CloseSocket(CloseSocket(sockets, clientSock[w]), listenSock[w])
    /\ wsaCount' = wsaCount - 1
    /\ events' = Log(w, <<"closesocket(clientSock)", "closesocket(listenSock)",
                          "send", "WSACleanup">>)
    /\ pc' = [pc EXCEPT ![w] = "parse"]
    /\ UNCHANGED pkceVars
    /\ UNCHANGED <<url, callbackScheme, result, listenSock, clientSock, port,
                   launched, buf, bytesRead, waited>>

\* The fixed response is sent, both sockets are closed, WSACleanup is called.
Respond(w) ==
    /\ pc[w] = "send"
    /\ sockets' = CloseSocket(CloseSocket(sockets, clientSock[w]), listenSock[w])
    /\ wsaCount' = wsaCount - 1
    /\ events' = Log(w, <<"send", "closesocket(clientSock)",
                          "closesocket(listenSock)", "WSACleanup">>)
    /\ pc' = [pc EXCEPT ![w] = "parse"]
    /\ UNCHANGED pkceVars
    /\ UNCHANGED <<url, callbackScheme, result, listenSock, clientSock, port,
                   launched, buf, bytesRead, waited>>

\* std::string request(buf), the regex search, and the one Resolve.
Parse(w) ==
    /\ pc[w] = "parse"
    /\ result' = Complete(w, Resolved(ParseRequest(CString(buf[w]),
                                                   callbackScheme[w])))
    /\ events' = Log(w, <<"Resolve">>)
    /\ pc' = [pc EXCEPT ![w] = "done"]
    /\ UNCHANGED pkceVars
    /\ UNCHANGED <<url, callbackScheme, wsaCount, sockets, listenSock,
                   clientSock, port, launched, buf, bytesRead, waited>>

\* The steps of an invocation that take no input and no time.
WorkerStep(w) ==
    \/ WSAStartupOk(w)
    \/ WSAStartupFails(w)
    \/ SocketOk(w)
    \/ SocketFails(w)
    \/ BindOk(w)
    \/ BindFails(w)
    \/ ListenOk(w)
    \/ ListenFails(w)
    \/ LaunchBrowser(w)
    \/ AcceptOk(w)
    \/ AcceptFails(w)
    \/ RecvFails(w)
    \/ Respond(w)
    \/ Parse(w)

----------------------------------------------------------------------------
\* Inputs: the callers' arguments and the bytes a client sends.

\* "https://as/auth"
AuthUrlPlain ==
    <<"h", "t", "t", "p", "s", ":", "/", "/", "a", "s", "/", "a", "u", "t",
      "h">>
\* "https://as/auth?id=1"
AuthUrlQuery ==
    <<"h", "t", "t", "p", "s", ":", "/", "/", "a", "s", "/", "a", "u", "t",
      "h", "?", "i", "d", "=", "1">>
\* "myapp"
MyApp == <<"m", "y", "a", "p", "p">>
\* "b"
OtherApp == <<"b">>

\* "GET /callback?code=abc123&state=xyz HTTP/1.1\r\n\r\n"
ScenarioCallback ==
    <<"G", "E", "T", " ", "/", "c", "a", "l", "l", "b", "a", "c", "k", "?",
      "c", "o", "d", "e", "=", "a", "b", "c", "1", "2", "3", "&", "s", "t",
      "a", "t", "e", "=", "x", "y", "z", " ", "H", "T", "T", "P", "/", "1",
      ".", "1", "\r", "\n", "\r", "\n">>
\* "GET /callback HTTP/1.1\r\n\r\n"
ScenarioBare ==
    <<"G", "E", "T", " ", "/", "c", "a", "l", "l", "b", "a", "c", "k", " ",
      "H", "T", "T", "P", "/", "1", ".", "1", "\r", "\n", "\r", "\n">>
\* "POST /callback HTTP/1.1\r\n\r\n"
ScenarioPost ==
    <<"P", "O", "S", "T", " ", "/", "c", "a", "l", "l", "b", "a", "c", "k",
      " ", "H", "T", "T", "P", "/", "1", ".", "1", "\r", "\n", "\r", "\n">>
\* "myapp://callback?code=abc123&state=xyz"
ScenarioResult ==
    <<"m", "y", "a", "p", "p", ":", "/", "/", "c", "a", "l", "l", "b", "a",
      "c", "k", "?", "c", "o", "d", "e", "=", "a", "b", "c", "1", "2", "3",
      "&", "s", "t", "a", "t", "e", "=", "x", "y", "z">>

ScenarioUrls == {AuthUrlPlain, AuthUrlQuery}
ScenarioRequests == {ScenarioCallback, ScenarioBare, ScenarioPost}

\* The inputs of the concurrent invocations.
ConcArgs == {<<AuthUrlQuery, MyApp>>}
ConcRequests == {ScenarioCallback, ScenarioPost}

\* All strings over a set of characters, up to a length.
StringsUpTo(chars, n) == UNION {[1..k -> chars] : k \in 0..n}

\* Requests put together from a prefix, a method, white space, a target,
\* white space, a version and a tail.
ReqPrefixes == {<<>>, <<"X", " ">>, <<NUL>>}
ReqMethods == {GET, <<"P", "U", "T">>}
ReqSpaces == {<<>>, <<" ">>}
TargetChars == {"/", "c", "?", NUL}
ReqTargets == StringsUpTo(TargetChars, MaxTargetLen)
ReqVersions == {HTTP, <<"H", "T", "M", "L">>}
\* "\r\nGET /t?u HTTP"
TailGet ==
    <<"\r", "\n", "G", "E", "T", " ", "/", "t", "?", "u", " ", "H", "T",
      "T", "P">>
ReqTails == {<<>>, TailGet}

WideRequests ==
    {pre \o m \o s1 \o t \o s2 \o v \o tl :
        pre \in ReqPrefixes, m \in ReqMethods, s1 \in ReqSpaces,
        t \in ReqTargets, s2 \in ReqSpaces, v \in ReqVersions,
        tl \in ReqTails}
    \cup ScenarioRequests

ParseArgs == {<<AuthUrlPlain, MyApp>>, <<AuthUrlPlain, OtherApp>>}

\* A request of n bytes: the request of the scenario without its last empty
\* line, followed by header bytes.
LongRequest(n) ==
    [i \in 1..n |->
        IF i <= Len(ScenarioCallback) - 2 THEN ScenarioCallback[i] ELSE "a"]

\* Requests that fill buf up to its last byte but one, that are as long as
\* buf, and that are longer.
LongRequests == {LongRequest(n) : n \in (BufSize - 1)..(BufSize + 1)}

UrlChars == {"u", "?", "&"}
UrlArgs ==
    {<<u, MyApp>> : u \in StringsUpTo(UrlChars, MaxUrlLen) \cup ScenarioUrls}

----------------------------------------------------------------------------
\* Base64UrlEncode applied to a byte vector.

\* Bytes whose 6-bit groups reach both ends of the alphabet: 251 and 255
\* begin with the groups of '+' and '/', 62 and 63 end with them.
ByteSamples == {0, 62, 63, 77, 251, 255}

\* The byte vectors of up to MaxDataLen sample bytes, the empty one included.
ByteVectors == StringsUpTo(ByteSamples, MaxDataLen)

\* The encoder is about to be called with any of the byte vectors.
InitCodec == InitAuth /\ InitPkce /\ encData \in ByteVectors

\* A call of Base64UrlEncode(encData); encoded gets what it returns.
CallBase64UrlEncode ==
    /\ encoded = <<>>
    /\ encoded' = <<Base64UrlEncode(encData)>>
    /\ UNCHANGED authVars
    /\ UNCHANGED <<encData, randomBytes, verifierResult, input, hashValue,
                   hashResult, hAlg, hHash, verifierCalls, hashCalls>>

----------------------------------------------------------------------------
\* generateCodeVerifier (lines 54-68) and sha256 (lines 70-117).  Both run
\* on the caller's thread from entry to return; the variables hold the
\* locals, the calls and the promise of the latest call of each.

\* A vector of n zero bytes, as std::vector<uint8_t> v(n) makes it.
ZeroVector(n) == [i \in 1..n |-> 0]

\* The k-th of the byte vectors of length n that a provider writes.
ByteVector(k, n) == [i \in 1..n |-> ((k * 85) + (i * 37)) % 256]

\* The vectors BCryptGenRandom and BCryptFinishHash can write.
ProviderVectors(n) == {ByteVector(k, n) : k \in 0..(NumVectors - 1)}

\* The strings given to sha256: "", "abc" and a verifier-like string.
HashInputs == {<<>>, <<"a", "b", "c">>, <<"-", "_", "8">>}

\* BCryptCloseAlgorithmProvider / BCryptDestroyHash on a handle in state h:
\* an open handle is closed; any other use is a misuse of the handle.
ReleaseHandle(h) == IF h = "open" THEN "closed" ELSE "misused"

\* BCryptGenRandom succeeds and fills randomBytes; the promise is resolved
\* with their encoding.
GenerateCodeVerifierOk ==
    /\ \E v \in ProviderVectors(RandomBytesSize) :
         /\ randomBytes' = v
         /\ verifierResult' = <<Resolved(JSString(Base64UrlEncode(v)))>>
    /\ verifierCalls' = <<"BCryptGenRandom", "Resolve">>
    /\ UNCHANGED authVars
    /\ UNCHANGED <<encData, encoded, input, hashValue, hashResult, hAlg,
                   hHash, hashCalls>>

\* BCryptGenRandom fails.
GenerateCodeVerifierFails ==
    /\ randomBytes' = ZeroVector(RandomBytesSize)
    /\ verifierResult' =
           <<Rejected("RANDOM_ERROR", "Failed to generate random bytes")>>
    /\ verifierCalls' = <<"BCryptGenRandom failed", "Reject">>
    /\ UNCHANGED authVars
    /\ UNCHANGED <<encData, encoded, input, hashValue, hashResult, hAlg,
                   hHash, hashCalls>>

\* BCryptOpenAlgorithmProvider fails.
Sha256OpenFails(Inputs) ==
    /\ input' \in Inputs
    /\ hAlg' = "null"
    /\ hHash' = "null"
    /\ hashValue' = <<>>
    /\ hashCalls' = <<"BCryptOpenAlgorithmProvider failed", "Reject">>
    /\ hashResult' =
           <<Rejected("HASH_ERROR", "Failed to open algorithm provider")>>
    /\ UNCHANGED authVars
    /\ UNCHANGED <<encData, encoded, randomBytes, verifierResult,
                   verifierCalls>>

\* BCryptCreateHash fails.
Sha256CreateFails(Inputs) ==
    /\ input' \in Inputs
    /\ hAlg' = ReleaseHandle("open")
    /\ hHash' = "null"
    /\ hashValue' = <<>>
    /\ hashCalls' = <<"BCryptOpenAlgorithmProvider", "BCryptCreateHash failed",
                       "BCryptCloseAlgorithmProvider", "Reject">>
    /\ hashResult' = <<Rejected("HASH_ERROR", "Failed to create hash")>>
    /\ UNCHANGED authVars
    /\ UNCHANGED <<encData, encoded, randomBytes, verifierResult,
                   verifierCalls>>

\* A failure of BCryptHashData after which the hash handle is left alone.
Sha256HashFailsLeak(Inputs) ==
    /\ input' \in Inputs
    /\ hAlg' = ReleaseHandle("open")
    /\ hHash' = "open"
    /\ hashValue' = <<>>
    /\ hashCalls' = <<"BCryptOpenAlgorithmProvider", "BCryptCreateHash",
                       "BCryptHashData failed",
                       "BCryptCloseAlgorithmProvider", "Reject">>
    /\ hashResult' = <<Rejected("HASH_ERROR", "Failed to hash data")>>
    /\ UNCHANGED authVars
    /\ UNCHANGED <<encData, encoded, randomBytes, verifierResult,
                   verifierCalls>>

\* BCryptHashData fails.
Sha256HashFails(Inputs) ==
    /\ input' \in Inputs
    /\ hHash' = ReleaseHandle("open")
    /\ hAlg' = ReleaseHandle("open")
    /\ hashValue' = <<>>
    /\ hashCalls' = <<"BCryptOpenAlgorithmProvider", "BCryptCreateHash",
                       "BCryptHashData failed", "BCryptDestroyHash",
                       "BCryptCloseAlgorithmProvider", "Reject">>
    /\ hashResult' = <<Rejected("HASH_ERROR", "Failed to hash data")>>
    /\ UNCHANGED authVars
    /\ UNCHANGED <<encData, encoded, randomBytes, verifierResult,
                   verifierCalls>>

\* A failure of BCryptFinishHash after which the promise is rejected and,
\* the return missing, resolved as well.
Sha256FinishFailsFallsThrough(Inputs) ==
    /\ input' \in Inputs
    /\ hHash' = ReleaseHandle("open")
    /\ hAlg' = ReleaseHandle("open")
    /\ hashValue' = ZeroVector(HashValueSize)
    /\ hashCalls' = <<"BCryptOpenAlgorithmProvider", "BCryptCreateHash",
                       "BCryptHashData", "BCryptFinishHash failed",
                       "BCryptDestroyHash", "BCryptCloseAlgorithmProvider",
                       "Reject", "Resolve">>
    /\ hashResult' =
           <<Rejected("HASH_ERROR", "Failed to finish hash"),
             Resolved(JSString(Base64UrlEncode(ZeroVector(HashValueSize))))>>
    /\ UNCHANGED authVars
    /\ UNCHANGED <<encData, encoded, randomBytes, verifierResult,
                   verifierCalls>>

\* BCryptFinishHash fails: both handles are released, then the status is
\* looked at.
Sha256FinishFails(Inputs) ==
    /\ input' \in Inputs
    /\ hHash' = ReleaseHandle("open")
    /\ hAlg' = ReleaseHandle("open")
    /\ hashValue' = ZeroVector(HashValueSize)
    /\ hashCalls' = <<"BCryptOpenAlgorithmProvider", "BCryptCreateHash",
                       "BCryptHashData", "BCryptFinishHash failed",
                       "BCryptDestroyHash", "BCryptCloseAlgorithmProvider",
                       "Reject">>
    /\ hashResult' = <<Rejected("HASH_ERROR", "Failed to finish hash")>>
    /\ UNCHANGED authVars
    /\ UNCHANGED <<encData, encoded, randomBytes, verifierResult,
                   verifierCalls>>

\* Every provider call succeeds: BCryptFinishHash writes the digest to
\* hashValue, both handles are released, and the promise is resolved with
\* the encoding of hashValue.
Sha256Ok(Inputs) ==
    /\ input' \in Inputs
    /\ hHash' = ReleaseHandle("open")
    /\ hAlg' = ReleaseHandle("open")
    /\ \E v \in ProviderVectors(HashValueSize) :
         /\ hashValue' = v
         /\ hashResult' = <<Resolved(JSString(Base64UrlEncode(v)))>>
    /\ hashCalls' = <<"BCryptOpenAlgorithmProvider", "BCryptCreateHash",
                       "BCryptHashData", "BCryptFinishHash",
                       "BCryptDestroyHash", "BCryptCloseAlgorithmProvider",
                       "Resolve">>
    /\ UNCHANGED authVars
    /\ UNCHANGED <<encData, encoded, randomBytes, verifierResult,
                   verifierCalls>>

----------------------------------------------------------------------------
\* Specifications.

\* Concurrent invocations; the time spent in blocking calls is left out.
Next ==
    \E w \in Workers :
        \/ Authenticate(w, ConcArgs)
        \/ RecvData(w, ConcRequests)
        \/ WorkerStep(w)

Spec == Init /\ [][Next]_vars

\* One invocation with the clock, for any authorization URL of UrlArgs and
\* requests up to more than the size of buf.
NextOne ==
    \E w \in {1} :
        \/ Authenticate(w, UrlArgs)
        \/ RecvData(w, ScenarioRequests \cup LongRequests)
        \/ Tick(w)
        \/ WorkerStep(w)

SpecOne == Init /\ [][NextOne]_vars

\* One invocation with the clock, for any request of WideRequests.
NextParse ==
    \E w \in {1} :
        \/ Authenticate(w, ParseArgs)
        \/ RecvData(w, WideRequests)
        \/ Tick(w)
        \/ WorkerStep(w)

SpecParse == Init /\ [][NextParse]_vars

\* Base64UrlEncode for any byte vector of ByteVectors.
NextCodec == CallBase64UrlEncode

SpecCodec == InitCodec /\ [][NextCodec]_vars

\* Calls of generateCodeVerifier and sha256, one after the other.
NextPkce ==
    \/ GenerateCodeVerifierOk
    \/ GenerateCodeVerifierFails
    \/ Sha256OpenFails(HashInputs)
    \/ Sha256CreateFails(HashInputs)
    \/ Sha256HashFails(HashInputs)
    \/ Sha256FinishFails(HashInputs)
    \/ Sha256Ok(HashInputs)

SpecPkce == Init /\ [][NextPkce]_vars

----------------------------------------------------------------------------
\* Properties of one invocation's completion and sockets (checked under Spec).

\* The indices of the Resolve and Reject calls in an invocation's calls.
CompletionCalls(w) ==
    {i \in DOMAIN events[w] : events[w][i] \in {"Resolve", "Reject"}}

\* Whether call c was made before the i-th call of invocation w.
CalledBefore(w, c, i) == \E j \in 1..(i - 1) : events[w][j] = c

\* C1: whatever WSAStartup, socket, bind, listen, accept, recv and the parse
\* yield, the promise of an invocation is completed at most once at any time,
\* and exactly once when its thread has finished: never zero completions
\* after the end, never a second Resolve or a Reject after a Resolve.
C1_ExactlyOneCompletion ==
    \A w \in Workers :
        /\ Len(result[w]) <= 1
        /\ Cardinality(CompletionCalls(w)) = Len(result[w])
        /\ pc[w] = "done" => Len(result[w]) = 1

\* Two finished invocations, one rejected during setup and one resolved with
\* a callback URL after a full exchange.
C1_Witness ==
    \E v, w \in Workers :
        /\ pc[v] = "done" /\ pc[w] = "done"
        /\ result[v][1].kind = "Reject"
        /\ result[w][1].kind = "Resolve"
        /\ result[w][1].value = JSString(ScenarioResult)

\* C2: when the promise of an invocation is resolved or rejected, every
\* socket the invocation opened (listenSock, and clientSock if accept
\* succeeded) was closed by an earlier call, on every path; so an invocation
\* whose promise is completed, or whose thread has finished, owns no open
\* socket.
C2_SocketsClosedBeforeCompletion ==
    \A w \in Workers :
        /\ \A i \in CompletionCalls(w) :
             /\ "socket" \in Range(events[w]) =>
                    CalledBefore(w, "closesocket(listenSock)", i)
             /\ "accept" \in Range(events[w]) =>
                    CalledBefore(w, "closesocket(clientSock)", i)
        /\ (result[w] # <<>> \/ pc[w] = "done") => OpenSocketsOf(w) = {}

\* An invocation rejected after a failed bind, with its socket closed, while
\* another one has finished after accept and recv succeeded.
C2_Witness ==
    \E v, w \in Workers :
        /\ pc[v] = "done" /\ "bind failed" \in Range(events[v])
        /\ listenSock[v] # INVALID_SOCKET
        /\ pc[w] = "done" /\ "accept" \in Range(events[w])
        /\ clientSock[w] # INVALID_SOCKET
        /\ OpenSocketsOf(v) = {} /\ OpenSocketsOf(w) = {}

\* The calls of the listener setup, as logged when they fail.
SetupFailures ==
    {"WSAStartup failed", "socket failed", "bind failed", "listen failed"}

\* C3: a Reject happens only when a call of the listener setup (WSAStartup,
\* socket, bind, listen) failed, and then with the code SOCKET_ERROR; once
\* listen has succeeded, whatever happens later (accept fails, recv returns
\* nothing, the request does not parse or has no query), every completion is
\* a Resolve.
C3_RejectOnlyOnSetupFailure ==
    \A w \in Workers :
        \A i \in DOMAIN result[w] :
            /\ result[w][i].kind = "Reject" =>
                 /\ result[w][i].code = "SOCKET_ERROR"
                 /\ Range(events[w]) \cap SetupFailures # {}
                 /\ "listen" \notin Range(events[w])
            /\ "listen" \in Range(events[w]) => result[w][i].kind = "Resolve"

\* One invocation rejected with SOCKET_ERROR after listen failed, another
\* resolved with null after accept failed.
C3_Witness ==
    \E v, w \in Workers :
        /\ "listen failed" \in Range(events[v])
        /\ result[v] = <<Rejected("SOCKET_ERROR", "Failed to listen on socket")>>
        /\ "accept failed" \in Range(events[w])
        /\ result[w] = <<Resolved(JSNull)>>

\* The calls that close a socket or complete the promise.
CloseOrCompleteCalls ==
    {"closesocket(clientSock)", "closesocket(listenSock)", "Resolve", "Reject"}

\* C8: the fixed response is sent at most once; once the sockets have been
\* dealt with (the thread parses or has finished) it has been sent exactly
\* once if and only if recv returned at least one byte, whatever the request
\* was; the send comes before every closesocket and before the Resolve; and
\* it is never sent when accept failed or recv returned zero or less.
C8_ResponseSentIffBytesRead ==
    \A w \in Workers :
        /\ Count(events[w], "send") <= 1
        /\ pc[w] \in {"parse", "done"} =>
             (Count(events[w], "send") = 1 <=>
                 ("recv" \in Range(events[w]) /\ bytesRead[w] >= 1))
        /\ \A i \in DOMAIN events[w] :
             events[w][i] = "send" =>
                 \A c \in CloseOrCompleteCalls : ~CalledBefore(w, c, i)
        /\ "send" \in Range(events[w]) =>
             /\ "accept failed" \notin Range(events[w])
             /\ "recv failed" \notin Range(events[w])
        /\ ("recv failed" \in Range(events[w]) /\ pc[w] = "done") =>
             bytesRead[w] <= 0

\* The response was sent for a request that did not parse (resolved with
\* null), while another invocation read nothing and sent nothing.
C8_Witness ==
    \E v, w \in Workers :
        /\ pc[w] = "done" /\ buf[w] = ScenarioPost
        /\ Count(events[w], "send") = 1
        /\ result[w] = <<Resolved(JSNull)>>
        /\ pc[v] = "done" /\ "recv failed" \in Range(events[v])
        /\ Count(events[v], "send") = 0

\* The value of a string of decimal digits.
RECURSIVE DecimalValue(_)
DecimalValue(d) ==
    IF d = <<>> THEN 0
    ELSE 10 * DecimalValue(SubSeq(d, 1, Len(d) - 1))
         + (CHOOSE n \in 0..9 : Digits[n + 1] = d[Len(d)])

\* Whether s ends with t.
EndsWith(s, t) ==
    Len(t) <= Len(s) /\ SubSeq(s, Len(s) - Len(t) + 1, Len(s)) = t

\* The part of a launched URL after the caller's URL, the separator and
\* "redirect_uri=": the redirect URI.
LaunchedRedirectUri(w) ==
    Substr(launched[w][1], Len(url[w]) + 1 + Len(RedirectParam))

\* The characters of a redirect URI between "http://127.0.0.1:" and
\* "/callback".
PortDigitsOf(uri) ==
    SubSeq(uri, Len(RedirectHost) + 1, Len(uri) - Len(CallbackPath))

\* C10: when an invocation has launched the browser (it is then waiting in
\* accept), the redirect URI in the launched URL is "http://127.0.0.1:",
\* decimal digits without a leading zero, and "/callback", and the digits
\* are the port on which the listening socket of that same invocation is
\* bound and listening, an ephemeral port that is not 0.
C10_RedirectPortIsListeningPort ==
    \A w \in Workers :
        (pc[w] = "accept" /\ launched[w] # <<>>) =>
            LET s   == sockets[listenSock[w]]
                uri == LaunchedRedirectUri(w)
            IN  /\ Len(launched[w]) = 1
                /\ s.state = "listening" /\ s.owner = w
                /\ s.port # 0 /\ s.port \in EphemeralPorts
                /\ SubSeq(uri, 1, Len(RedirectHost)) = RedirectHost
                /\ EndsWith(uri, CallbackPath)
                /\ Len(uri) > Len(RedirectHost) + Len(CallbackPath)
                /\ \A i \in DOMAIN PortDigitsOf(uri) :
                       PortDigitsOf(uri)[i] \in Range(Digits)
                /\ PortDigitsOf(uri)[1] # "0"
                /\ DecimalValue(PortDigitsOf(uri)) = s.port

\* Two invocations wait in accept at once, each with its own port in the
\* URL it launched.
C10_Witness ==
    \E v, w \in Workers :
        /\ v # w
        /\ pc[v] = "accept" /\ pc[w] = "accept"
        /\ launched[v] # <<>> /\ launched[w] # <<>>
        /\ sockets[listenSock[v]].port # sockets[listenSock[w]].port
        /\ DecimalValue(PortDigitsOf(LaunchedRedirectUri(w))) = port[w]

----------------------------------------------------------------------------
\* Properties of the wait and of the launched URL (checked under SpecOne).

\* C4: when the listener is set up and no client connects, the wait in
\* accept ends when the 60-second timeout fires (after which the listening
\* socket is closed and the promise resolved with null): no thread is still
\* blocked in accept after it has waited longer than the timeout.
C4_AcceptWaitEndsAtTimeout ==
    \A w \in Workers : pc[w] = "accept" => waited[w] <= timeout

\* C9: the URL given to the browser is the caller's URL, then '&' if the
\* caller's URL holds a '?' anywhere and '?' if it holds none, then
\* "redirect_uri=" and the redirect URI; the caller's URL is a prefix of it.
C9_SeparatorByQueryMark ==
    \A w \in Workers :
        \A i \in DOMAIN launched[w] :
            LET sep == IF \E k \in DOMAIN url[w] : url[w][k] = "?"
                       THEN "&" ELSE "?"
            IN  /\ SubSeq(launched[w][i], 1, Len(url[w])) = url[w]
                /\ launched[w][i][Len(url[w]) + 1] = sep
                /\ launched[w][i] =
                       url[w] \o <<sep>> \o RedirectParam \o RedirectUri(port[w])

\* A URL whose '?' is not its first character was launched with '&'.
C9_Witness ==
    \E w \in Workers :
        /\ launched[w] # <<>>
        /\ url[w] = <<"u", "?">>
        /\ launched[w][1][3] = "&"

----------------------------------------------------------------------------
\* Properties of the parsed request (checked under SpecParse).

\* A character that can stand in a request target: visible, so neither
\* white space nor NUL.
IsVChar(c) == ~IsSpace(c) /\ c # NUL

\* The places <<a, e>> such that the bytes b are "GET", white space, a
\* target b[a..e] of visible characters that starts with '/' and has at
\* least one more character, white space, "HTTP", and anything after it.
RequestLineSplits(b) ==
    IF ~LitAt(b, 1, GET) THEN {}
    ELSE {x \in (5..Len(b)) \X (6..Len(b)) :
            /\ x[1] < x[2]
            /\ \A k \in 4..(x[1] - 1) : IsSpace(b[k])
            /\ b[x[1]] = "/"
            /\ \A k \in x[1]..x[2] : IsVChar(b[k])
            /\ \E h \in (x[2] + 2)..Len(b) :
                 /\ \A k \in (x[2] + 1)..(h - 1) : IsSpace(b[k])
                 /\ LitAt(b, h, HTTP)}

\* Whether the bytes begin with a request line  GET <path> HTTP.
BeginsWithRequestLine(b) == RequestLineSplits(b) # {}

\* The target of the request line the bytes begin with.
RequestTarget(b) ==
    LET x == CHOOSE y \in RequestLineSplits(b) : TRUE
    IN  SubSeq(b, x[1], x[2])

\* The part of t from its first '?' to its end.
FromFirstQuery(t) ==
    SubSeq(t, Min({k \in DOMAIN t : t[k] = "?"}), Len(t))

\* The invocations that have finished after recv returned bytes.
Parsed(w) == pc[w] = "done" /\ "recv" \in Range(events[w])

\* C5: when the bytes read begin with a request line GET <path>?<query> HTTP,
\* the promise is resolved with callbackScheme, "://callback" and the part of
\* the target from its first '?' to its end, unchanged, whatever stands
\* before that '?' and whatever '?' follow it.
C5_CallbackUrlCarriesQuery ==
    \A w \in Workers :
        (/\ Parsed(w)
         /\ BeginsWithRequestLine(buf[w])
         /\ "?" \in Range(RequestTarget(buf[w]))) =>
            result[w] =
                <<Resolved(JSString(callbackScheme[w] \o CallbackLit
                                    \o FromFirstQuery(RequestTarget(buf[w]))))>>

\* The request of the scenario, GET /callback?code=abc123&state=xyz HTTP/1.1,
\* resolved with myapp://callback?code=abc123&state=xyz.
C5_Witness ==
    \E w \in Workers :
        /\ Parsed(w)
        /\ buf[w] = ScenarioCallback
        /\ callbackScheme[w] = MyApp
        /\ BeginsWithRequestLine(buf[w])
        /\ RequestTarget(buf[w]) = SubSeq(ScenarioCallback, 5, 35)
        /\ result[w] = <<Resolved(JSString(ScenarioResult))>>

\* A target with a second '?' after the first, carried through whole.
C5_WitnessSecondQuery ==
    \E w \in Workers :
        /\ Parsed(w)
        /\ BeginsWithRequestLine(buf[w])
        /\ RequestTarget(buf[w]) = <<"/", "?", "?">>
        /\ result[w][1].value.str = callbackScheme[w] \o CallbackLit \o <<"?", "?">>

\* C6: when the bytes read begin with a request line GET <path> HTTP whose
\* path holds no '?', the promise is resolved with null, never with a
\* callback URL.
C6_BareCallbackResolvesNull ==
    \A w \in Workers :
        (/\ Parsed(w)
         /\ BeginsWithRequestLine(buf[w])
         /\ "?" \notin Range(RequestTarget(buf[w]))) =>
            result[w] = <<Resolved(JSNull)>>

\* A request line without a query, followed by a line that holds
\* "GET /t?u HTTP", resolved with null.
C6_Witness ==
    \E w \in Workers :
        /\ Parsed(w)
        /\ BeginsWithRequestLine(buf[w])
        /\ RequestTarget(buf[w]) = <<"/", "c">>
        /\ EndsWith(buf[w], TailGet)
        /\ result[w] = <<Resolved(JSNull)>>

\* C7: the request line is matched at the start of the bytes read: for every
\* byte sequence that does not begin with GET <path> HTTP (another method on
\* the first line, the pattern only later), the promise is resolved with
\* null.
C7_NoRequestLineResolvesNull ==
    \A w \in Workers :
        (Parsed(w) /\ ~BeginsWithRequestLine(buf[w])) =>
            result[w] = <<Resolved(JSNull)>>

----------------------------------------------------------------------------
\* Properties of concurrent invocations (checked under Spec).

\* The sockets of the table that invocation w owns.
SocketsOf(w) == {h \in Handles : sockets[h].owner = w}

\* Every socket an invocation's locals name is its own, and two invocations
\* with a bound or listening socket have different handles and ports.
OwnSocketAndPort ==
    \A v, w \in Workers :
        /\ \A h \in {listenSock[w], clientSock[w]} :
             (h \in Handles /\ sockets[h].state # "free") =>
                 sockets[h].owner = w
        /\ (/\ v # w
            /\ pc[v] \in {"listen", "ShellExecuteW", "accept", "recv", "send"}
            /\ pc[w] \in {"listen", "ShellExecuteW", "accept", "recv", "send"}) =>
               /\ listenSock[v] # listenSock[w]
               /\ sockets[listenSock[v]].port # sockets[listenSock[w]].port
               /\ port[v] # port[w]

\* Two finished invocations with the same callback scheme, the same calls
\* and the same bytes read have the same result, whatever the other
\* invocations did in between.
OutcomeFromOwnEvents ==
    \A v, w \in Workers :
        (/\ pc[v] = "done" /\ pc[w] = "done"
         /\ callbackScheme[v] = callbackScheme[w]
         /\ events[v] = events[w]
         /\ buf[v] = buf[w]) =>
            result[v] = result[w]

\* A step of one invocation leaves the result, the locals, the calls and the
\* sockets of every other invocation as they are.
StepLeavesOthersAlone ==
    \A w \in Workers :
        pc'[w] = pc[w] =>
            /\ result'[w] = result[w]
            /\ events'[w] = events[w]
            /\ listenSock'[w] = listenSock[w]
            /\ clientSock'[w] = clientSock[w]
            /\ port'[w] = port[w]
            /\ buf'[w] = buf[w]
            /\ launched'[w] = launched[w]
            /\ \A h \in SocketsOf(w) : sockets'[h] = sockets[h]

\* C11: under every interleaving of concurrent invocations, each invocation
\* has its own listening socket and its own port, the result of an
\* invocation follows from its own arguments and the events on its own
\* sockets, and no step of one invocation (a connection, a failed or timed
\* out wait, a closesocket) changes the result or a socket of another.
C11_InvocationsDoNotInterfere ==
    /\ [](OwnSocketAndPort /\ OutcomeFromOwnEvents)
    /\ [][StepLeavesOthersAlone]_vars

\* One invocation has finished and closed its sockets while another is
\* still waiting in accept on its own listening socket.
C11_Witness ==
    \E v, w \in Workers :
        /\ v # w
        /\ pc[v] = "done" /\ "closesocket(listenSock)" \in Range(events[v])
        /\ "accept" \in Range(events[v])
        /\ pc[w] = "accept"
        /\ sockets[listenSock[w]].state = "listening"
        /\ sockets[listenSock[w]].owner = w
        /\ result[w] = <<>>

\* The states of a thread that has been started and has not finished.
Running == {"WSAStartup", "socket", "bind", "listen", "ShellExecuteW",
            "accept", "recv", "send", "parse"}

\* While an invocation's thread runs, the caller can start another one.
CallerCanStartAnother ==
    \A v, w \in Workers :
        (v # w /\ pc[w] \in Running /\ pc[v] = "idle") =>
            ENABLED Authenticate(v, ConcArgs)

\* The step that is the call of authenticate only starts the thread: when it
\* returns, none of the thread's calls has been made.
ReturnsAfterSpawnOnly ==
    \A w \in Workers :
        (pc[w] = "idle" /\ pc'[w] # "idle") =>
            /\ pc'[w] = "WSAStartup"
            /\ events' = events /\ result' = result
            /\ sockets' = sockets /\ wsaCount' = wsaCount
            /\ launched' = launched

\* C12: the call of authenticate returns to the caller after it has only
\* started the detached thread; the caller waits for none of the thread's
\* steps, and can start another authenticate while a thread is still
\* waiting in accept (or is anywhere else on its way).
C12_CallerNotBlocked ==
    /\ []CallerCanStartAnother
    /\ [][ReturnsAfterSpawnOnly]_vars

\* The call of authenticate has returned and its thread waits in accept
\* with the promise open, while the caller is free to start another
\* invocation.
C12_Witness ==
    \E v, w \in Workers :
        /\ v # w
        /\ pc[w] = "accept" /\ result[w] = <<>>
        /\ pc[v] = "idle"
        /\ ENABLED Authenticate(v, ConcArgs)

----------------------------------------------------------------------------
\* Properties of Base64UrlEncode (checked under SpecCodec).

\* The 6-bit value of a character of the base64 alphabet.
Base64Value(c) == CHOOSE v \in 0..63 : Base64Alphabet[v + 1] = c

\* '-' and '_' swapped back to '+' and '/'.
SwapBack(s) ==
    [i \in DOMAIN s |->
        IF s[i] = "-" THEN "+" ELSE IF s[i] = "_" THEN "/" ELSE s[i]]

\* The standard padding added again: '=' up to a multiple of four.
PadBack(s) ==
    s \o (IF Len(s) % 4 = 2 THEN <<"=", "=">>
          ELSE IF Len(s) % 4 = 3 THEN <<"=">> ELSE <<>>)

\* The standard base64 decoding of a padded text.
RECURSIVE Base64Decode(_)
Base64Decode(s) ==
    IF Len(s) < 4 THEN <<>>
    ELSE LET v1 == Base64Value(s[1])
             v2 == Base64Value(s[2])
             b1 == (v1 * 4) + (v2 \div 16)
         IN  IF s[3] = "=" THEN <<b1>>
             ELSE LET v3 == Base64Value(s[3])
                      b2 == ((v2 % 16) * 16) + (v3 \div 4)
                  IN  IF s[4] = "=" THEN <<b1, b2>>
                      ELSE <<b1, b2, ((v3 % 4) * 64) + Base64Value(s[4])>>
                           \o Base64Decode(SubSeq(s, 5, Len(s)))

\* C13: for every byte sequence, the empty one included (which encodes to
\* the empty string), the string Base64UrlEncode returns holds no '+', '/'
\* or '=', and decoding it, after '-' and '_' are swapped back and the
\* standard padding is added again, gives the byte sequence back.
C13_Base64UrlRoundTrip ==
    \A i \in DOMAIN encoded :
        /\ Range(encoded[i]) \cap {"+", "/", "="} = {}
        /\ Len(PadBack(encoded[i])) % 4 = 0
        /\ Base64Decode(PadBack(SwapBack(encoded[i]))) = encData
        /\ encData = <<>> => encoded[i] = <<>>

\* The bytes FB FF 3E, whose base64 text "+/8+" holds '+' and '/', and two
\* bytes, whose base64 text ends with '=', have been encoded.
C13_Witness ==
    \E v \in {<<251, 255, 62>>, <<255, 255>>} :
        /\ encData = v
        /\ encoded = <<IF Len(v) = 3 THEN <<"-", "_", "8", "-">>
                       ELSE <<"_", "_", "8">>>>

----------------------------------------------------------------------------
\* Properties of generateCodeVerifier and sha256 (checked under SpecPkce).

\* The provider calls of sha256 in program order, and as logged on failure.
HashStages ==
    <<"BCryptOpenAlgorithmProvider", "BCryptCreateHash", "BCryptHashData",
      "BCryptFinishHash">>
FailedHashStages ==
    <<"BCryptOpenAlgorithmProvider failed", "BCryptCreateHash failed",
      "BCryptHashData failed", "BCryptFinishHash failed">>

\* The provider calls among the calls of a sha256, in order.
StageCalls(calls) ==
    SelectSeq(calls, LAMBDA c : c \in Range(HashStages) \cup Range(FailedHashStages))

\* The Resolve and Reject calls among calls, in order.
Completions(calls) == SelectSeq(calls, LAMBDA c : c \in {"Resolve", "Reject"})

\* The bytes a base64url string stands for.
Base64UrlDecode(str) == Base64Decode(PadBack(SwapBack(str)))

\* A call of generateCodeVerifier has completed its promise once: resolved
\* with the encoding of the 32 random bytes if BCryptGenRandom succeeded,
\* rejected with RANDOM_ERROR if it failed.
VerifierCompletedOnce ==
    verifierCalls # <<>> =>
        /\ Len(verifierResult) = 1
        /\ Len(Completions(verifierCalls)) = 1
        /\ verifierCalls[Len(verifierCalls)] \in {"Resolve", "Reject"}
        /\ IF verifierCalls[1] = "BCryptGenRandom"
           THEN /\ verifierResult[1].kind = "Resolve"
                /\ Len(randomBytes) = 32
                /\ verifierResult[1].value = JSString(Base64UrlEncode(randomBytes))
                /\ Base64UrlDecode(verifierResult[1].value.str) = randomBytes
           ELSE /\ verifierCalls[1] = "BCryptGenRandom failed"
                /\ verifierResult[1].kind = "Reject"
                /\ verifierResult[1].code = "RANDOM_ERROR"

\* A call of sha256 has made its provider calls in order up to the first
\* that failed, none after it, and has completed its promise once: resolved
\* with the encoding of the 32 bytes of the digest if all four succeeded,
\* rejected with HASH_ERROR otherwise.
HashCompletedOnce ==
    hashCalls # <<>> =>
        LET st == StageCalls(hashCalls)
            n  == Len(st)
        IN  /\ Len(hashResult) = 1
            /\ Len(Completions(hashCalls)) = 1
            /\ hashCalls[Len(hashCalls)] \in {"Resolve", "Reject"}
            /\ n \in 1..4
            /\ \A i \in 1..(n - 1) : st[i] = HashStages[i]
            /\ st[n] \in {HashStages[n], FailedHashStages[n]}
            /\ IF st[n] = HashStages[n]
               THEN /\ n = 4
                    /\ hashResult[1].kind = "Resolve"
                    /\ Len(hashValue) = 32
                    /\ hashResult[1].value = JSString(Base64UrlEncode(hashValue))
                    /\ Base64UrlDecode(hashResult[1].value.str) = hashValue
               ELSE /\ hashResult[1].kind = "Reject"
                    /\ hashResult[1].code = "HASH_ERROR"

\* C14: generateCodeVerifier and sha256 each complete their promise exactly
\* once before they return: with a Resolve carrying the base64url encoding
\* of exactly 32 bytes (the random bytes, or the digest) if and only if
\* every provider call succeeded, and otherwise with one Reject of kind
\* RANDOM_ERROR, or HASH_ERROR at the first of open, create, hash and finish
\* that fails; no later stage is executed and no Resolve follows a Reject.
C14_PkceCompletesOnce == VerifierCompletedOnce /\ HashCompletedOnce

\* generateCodeVerifier has resolved with a string of 43 characters, and a
\* sha256 was rejected after BCryptFinishHash failed.
C14_Witness ==
    /\ verifierResult # <<>>
    /\ verifierResult[1].kind = "Resolve"
    /\ Len(verifierResult[1].value.str) = 43
    /\ hashResult = <<Rejected("HASH_ERROR", "Failed to finish hash")>>
    /\ "BCryptFinishHash failed" \in Range(hashCalls)

----------------------------------------------------------------------------
\* Properties of the provider handles of sha256 (checked under SpecPkce).

\* The positions of call c among the calls of the latest sha256.
HashCallsOf(c) == {i \in DOMAIN hashCalls : hashCalls[i] = c}

\* The handle acquired by call acq is released by call rel exactly once,
\* after it was acquired, if it was acquired, and not at all otherwise.
ReleasedOnce(acq, rel) ==
    IF HashCallsOf(acq) = {}
    THEN HashCallsOf(rel) = {}
    ELSE /\ Cardinality(HashCallsOf(rel)) = 1
         /\ \A i \in HashCallsOf(acq) : \A j \in HashCallsOf(rel) : i < j

\* C19: when a call of sha256 has returned, the algorithm provider handle
\* was closed exactly once if it was opened, and the hash handle destroyed
\* exactly once if it was created, whether create-hash, hash-data or
\* finish-hash failed or all succeeded; no handle was released twice or
\* without having been acquired, and none is left open.
C19_HashHandlesReleased ==
    hashCalls # <<>> =>
        /\ ReleasedOnce("BCryptOpenAlgorithmProvider",
                        "BCryptCloseAlgorithmProvider")
        /\ ReleasedOnce("BCryptCreateHash", "BCryptDestroyHash")
        /\ hAlg = (IF HashCallsOf("BCryptOpenAlgorithmProvider") = {}
                   THEN "null" ELSE "closed")
        /\ hHash = (IF HashCallsOf("BCryptCreateHash") = {}
                    THEN "null" ELSE "closed")

\* A sha256 in which BCryptHashData failed has returned with both handles
\* released.
C19_Witness ==
    /\ "BCryptHashData failed" \in Range(hashCalls)
    /\ "BCryptDestroyHash" \in Range(hashCalls)
    /\ hAlg = "closed" /\ hHash = "closed"
    /\ hashResult = <<Rejected("HASH_ERROR", "Failed to hash data")>>

----------------------------------------------------------------------------
\* Properties of the read and of the order of the calls.

\* C15: after accept has returned a connection the invocation still ends:
\* the one blocking recv is bounded by the receive timeout the accepted
\* socket has from the listening socket, so the thread is never in recv
\* for longer than the timeout, also when the client sends nothing and
\* does not close; and when recv returns without bytes both sockets are
\* closed and the promise is resolved with null.
C15_ReadIsBounded ==
    \A w \in Workers :
        /\ pc[w] = "recv" =>
             /\ sockets[clientSock[w]].rcvtimeo = timeout
             /\ waited[w] <= timeout
        /\ "recv failed" \in Range(events[w]) =>
             /\ pc[w] = "done"
             /\ OpenSocketsOf(w) = {}
             /\ Count(events[w], "closesocket(clientSock)") = 1
             /\ Count(events[w], "closesocket(listenSock)") = 1
             /\ result[w] = <<Resolved(JSNull)>>

\* A thread has waited in recv for the whole timeout with nothing read:
\* no more time can pass before recv returns.
C15_Witness ==
    \E w \in Workers :
        /\ pc[w] = "recv"
        /\ waited[w] = timeout
        /\ bytesRead[w] = 0 /\ buf[w] = <<>>
        /\ ~ENABLED Tick(w)
        /\ ENABLED RecvFails(w)

\* C16: the browser is launched at most once per invocation, and only after
\* socket, bind and listen have succeeded, so that the listening socket is
\* in the listening state when the URL is opened; when WSAStartup, socket,
\* bind or listen fails the browser is never launched.
C16_LaunchOnceAfterListen ==
    \A w \in Workers :
        /\ Count(events[w], "ShellExecuteW") <= 1
        /\ Len(launched[w]) = Count(events[w], "ShellExecuteW")
        /\ \A i \in DOMAIN events[w] :
             events[w][i] = "ShellExecuteW" =>
                 /\ CalledBefore(w, "WSAStartup", i)
                 /\ CalledBefore(w, "socket", i)
                 /\ CalledBefore(w, "bind", i)
                 /\ CalledBefore(w, "listen", i)
        /\ Range(events[w]) \cap SetupFailures # {} => launched[w] = <<>>
        /\ (launched[w] # <<>> /\ pc[w] = "accept") =>
               sockets[listenSock[w]].state = "listening"

\* One invocation has launched the browser with its socket listening,
\* another has ended after a failed listen without a launch.
C16_Witness ==
    \E v, w \in Workers :
        /\ pc[w] = "accept" /\ Len(launched[w]) = 1
        /\ sockets[listenSock[w]].state = "listening"
        /\ pc[v] = "done" /\ "listen failed" \in Range(events[v])
        /\ launched[v] = <<>>

\* The calls of an invocation that are an accept, and those that are a recv.
AcceptCalls(w) ==
    {i \in DOMAIN events[w] : events[w][i] \in {"accept", "accept failed"}}
RecvCalls(w) ==
    {i \in DOMAIN events[w] : events[w][i] \in {"recv", "recv failed"}}

\* An invocation accepts at most once, reads at most once and answers at
\* most once, and after its accept it is never again waiting in accept.
OneAcceptOneRead ==
    \A w \in Workers :
        /\ Cardinality(AcceptCalls(w)) <= 1
        /\ Cardinality(RecvCalls(w)) <= 1
        /\ Count(events[w], "send") <= 1
        /\ AcceptCalls(w) # {} => pc[w] \in {"recv", "send", "parse", "done"}
        /\ RecvCalls(w) # {} => pc[w] \in {"send", "parse", "done"}
        /\ pc[w] \in {"parse", "done"} => OpenSocketsOf(w) = {}

\* The result that was delivered stays, and a finished thread makes no
\* further call.
OutcomeIsFinal ==
    \A w \in Workers :
        /\ result[w] # <<>> => result'[w] = result[w]
        /\ pc[w] = "done" => (pc'[w] = "done" /\ events'[w] = events[w])

\* C17: each invocation accepts at most once and reads at most once: only
\* the first connection is served, and what it yields (also nothing read,
\* or a request that does not parse) is final; no further connection to the
\* port is accepted, read or answered, and none changes the result.
C17_FirstConnectionOnly ==
    /\ []OneAcceptOneRead
    /\ [][OutcomeIsFinal]_vars

\* The first connection sent nothing that could be read, or a request that
\* is no GET: the thread has finished with null, its listening socket
\* closed, after one accept.
C17_Witness ==
    \E v, w \in Workers :
        /\ v # w
        /\ pc[v] = "done" /\ "recv failed" \in Range(events[v])
        /\ Cardinality(AcceptCalls(v)) = 1
        /\ pc[w] = "done" /\ buf[w] = ScenarioPost
        /\ Cardinality(AcceptCalls(w)) = 1
        /\ result[v] = <<Resolved(JSNull)>> /\ result[w] = <<Resolved(JSNull)>>
        /\ sockets[listenSock[v]].state = "free"

\* The invocations that have initialised the socket library and have not
\* yet released it.
HoldsWinsock(w) ==
    "WSAStartup" \in Range(events[w]) /\ "WSACleanup" \notin Range(events[w])

\* C18: WSACleanup is called exactly once on every path that follows a
\* successful WSAStartup and never after a failed one, and always after the
\* sockets of the invocation are closed; so, under every interleaving, the
\* count of initialisations of the process is never negative, is at least
\* 1 while any invocation has an open socket, and is back at its initial
\* value when all invocations have finished.
C18_WinsockBalanced ==
    /\ wsaCount >= 0
    /\ wsaCount = Cardinality({w \in Workers : HoldsWinsock(w)})
    /\ (\E w \in Workers : OpenSocketsOf(w) # {}) => wsaCount >= 1
    /\ (\A w \in Workers : pc[w] \in {"idle", "done"}) => wsaCount = 0
    /\ \A w \in Workers :
         /\ Count(events[w], "WSACleanup") <= 1
         /\ pc[w] = "done" =>
                Count(events[w], "WSACleanup") = Count(events[w], "WSAStartup")
         /\ "WSAStartup failed" \in Range(events[w]) =>
                "WSACleanup" \notin Range(events[w])
         /\ \A i \in DOMAIN events[w] :
              events[w][i] = "WSACleanup" =>
                  /\ CalledBefore(w, "WSAStartup", i)
                  /\ "socket" \in Range(events[w]) =>
                         CalledBefore(w, "closesocket(listenSock)", i)
                  /\ "accept" \in Range(events[w]) =>
                         CalledBefore(w, "closesocket(clientSock)", i)
                  /\ OpenSocketsOf(w) = {}

\* One invocation has ended after a failed socket call and released the
\* library, while another still holds it with its socket listening.
C18_Witness ==
    \E v, w \in Workers :
        /\ pc[v] = "done" /\ "socket failed" \in Range(events[v])
        /\ Count(events[v], "WSACleanup") = 1
        /\ pc[w] = "accept" /\ OpenSocketsOf(w) # {}
        /\ wsaCount = 1

\* C20: the one recv never writes past buf: whatever the size of the
\* request, also 4096 bytes or more, at most sizeof(buf) - 1 bytes are
\* stored, they are the first bytes of the request, the rest is left
\* unread, and the NUL written at buf[bytesRead] has an index of at most
\* 4095, inside buf.
C20_ReadStaysInsideBuffer ==
    \A w \in Workers :
        /\ bytesRead[w] <= BufSize - 1
        /\ Len(buf[w]) <= BufSize - 1
        /\ "recv" \in Range(events[w]) =>
             /\ bytesRead[w] \in 1..4095
             /\ Len(buf[w]) = bytesRead[w]
             /\ \E sent \in ScenarioRequests \cup LongRequests :
                  /\ bytesRead[w] <= Len(sent)
                  /\ buf[w] = SubSeq(sent, 1, bytesRead[w])

\* A request of 4097 bytes was received: 4095 bytes of it are in buf, and
\* the invocation has resolved with the callback URL of its request line.
C20_Witness ==
    \E w \in Workers :
        /\ pc[w] = "done"
        /\ bytesRead[w] = 4095
        /\ buf[w] = SubSeq(LongRequest(BufSize + 1), 1, 4095)
        /\ result[w] = <<Resolved(JSString(ScenarioResult))>>

====
